---- MODULE Spec2Model ----
(***************************************************************************)
(* The video frame extractor page: the Home component's state and          *)
(* handlers (src/src/app/page.tsx), the three helper routines              *)
(* extractFrames, extractActualFrames and analyzeVideoFrames               *)
(* (src/src/lib/utils.ts) and the video element they drive                 *)
(* (src/src/components/video-player.tsx).                                  *)
(*                                                                         *)
(* Times of the video element and of frame records are in milliseconds;    *)
(* the start and end times the handlers pass on are whole seconds, as      *)
(* timeToSeconds returns them.  A dataUrl is modelled by the media         *)
(* position of the picture that was drawn.  The JPEG quality setting only  *)
(* changes the encoding of a dataUrl and is left out.                      *)
(***************************************************************************)
EXTENDS Integers, Sequences, FiniteSets, TLC

VARIABLES
  startTime, endTime, frameInterval,
  extractedFrames, actualFrames, capturedFrames,
  extractionProgress, isExtracting,
  videoAnalysis, isAnalyzing, analysisProgress, analysisError,
  alertOpen,
  hasRVFC, video, rvfc,
  ef, efOrder, eaf, an,
  started, reported

vars == <<startTime, endTime, frameInterval, extractedFrames, actualFrames,
          capturedFrames, extractionProgress, isExtracting, videoAnalysis,
          isAnalyzing, analysisProgress, analysisError, alertOpen, hasRVFC,
          video, rvfc, ef, efOrder, eaf, an, started, reported>>

uiTimes == <<startTime, endTime, frameInterval>>
uiFrames == <<extractedFrames, actualFrames, capturedFrames>>
uiExtract == <<extractionProgress, isExtracting>>
uiAnalysis == <<videoAnalysis, isAnalyzing, analysisProgress, analysisError>>
uiTimesEnv == <<startTime, endTime, frameInterval, hasRVFC, reported>>
uiTimesEnvStarted == <<startTime, endTime, frameInterval, hasRVFC, reported, started>>

----------------------------------------------------------------------------
(* Program constants *)

MaxFrames == 100
DefaultFrameInterval == 100
HAVE_CURRENT_DATA == 2
HAVE_ENOUGH_DATA == 4
SliderStep == 33
SliderMax == 1000

(* Bounds of the model: the closures of a kind that may exist at once, and *)
(* the operations (file choices, helper calls, captures) of one behaviour  *)

MaxCalls == 2
MaxAnalyses == 2
MaxStarted == 3

----------------------------------------------------------------------------
(* Helpers *)

Min(a, b) == IF a <= b THEN a ELSE b
Max(a, b) == IF a >= b THEN a ELSE b

NoTime == [hours |-> 0, minutes |-> 0, seconds |-> 0]

timeToSeconds(time) == time.hours * 3600 + time.minutes * 60 + time.seconds

(* The values the frame-interval slider can take: min 33, step 33, max 1000 *)
SliderValues == {k * SliderStep : k \in 1..(SliderMax \div SliderStep)}

----------------------------------------------------------------------------
(* The video files a user may choose.  Frame k of a file is presented at   *)
(* media time k * period.  "over" reports a duration shorter than the      *)
(* media time of its last frame; the others report the end of their last   *)
(* frame.                                                                  *)

FileIds == {"slow", "over", "long", "fast"}

File(id) ==
  CASE id = "slow" -> [period |-> 500, nframes |-> 4, duration |-> 2000, height |-> 2]
    [] id = "over" -> [period |-> 500, nframes |-> 4, duration |-> 1200, height |-> 2]
    [] id = "long" -> [period |-> 500, nframes |-> 12, duration |-> 6000, height |-> 2]
    [] id = "fast" -> [period |-> 33, nframes |-> 135, duration |-> 4455, height |-> 2]

NoVideo == [exists |-> FALSE, file |-> "none", duration |-> 0, period |-> 1,
            nframes |-> 0, height |-> 0,
            currentTime |-> 0, paused |-> TRUE, seeking |-> FALSE, shown |-> 0,
            next |-> 0]

(* The history the claims read, beside the program's state: `reported` is  *)
(* the last value passed to an onProgress callback, and the firstTime of   *)
(* an analysis is the media time of the first frame it counted.            *)

(* The index of the frame a loaded video displays at media position t *)
FrameIndexAt(v, t) == Min(t \div v.period, v.nframes)

(* video.currentTime = t: the position moves at once and a seek to it is   *)
(* pending until its seeked event; a seek still pending is given up for    *)
(* the new one, so one seeked event follows the last assignment.           *)
(* Positions past the end are clamped.                                     *)
SeekTarget(v, t) == IF v.duration > 0 /\ t > v.duration THEN v.duration
                    ELSE Max(t, 0)

SetCurrentTime(v, t) ==
  [v EXCEPT !.currentTime = SeekTarget(v, t),
            !.seeking = TRUE]

(* The video is at its end: the frame to present next, or the one at the   *)
(* position just assigned, lies past its last frame.                       *)
Ended(v) ==
  /\ v.nframes > 0
  /\ (IF v.seeking THEN FrameIndexAt(v, v.currentTime) ELSE v.next) >= v.nframes

(* video.play(): a video that has played to its end starts over *)
Play(v) ==
  IF Ended(v) THEN [SetCurrentTime(v, 0) EXCEPT !.paused = FALSE]
  ELSE [v EXCEPT !.paused = FALSE]

Pause(v) == [v EXCEPT !.paused = TRUE]

----------------------------------------------------------------------------
(* Closures of the three helper routines *)

IdleCall == [status |-> "idle", startTime |-> 0, endTime |-> 0,
             frameInterval |-> 0, maxFrames |-> 0, totalFrames |-> 0,
             currentFrame |-> 0, frames |-> <<>>]

IdleActual == [status |-> "idle", startTime |-> 0, endTime |-> 0,
               maxFrames |-> 0, frameCount |-> 0, frames |-> <<>>]

IdleAnalysis == [status |-> "idle", frameCount |-> 0, hasStart |-> FALSE,
                 startTime |-> 0, lastTime |-> 0, playPending |-> FALSE,
                 firstTime |-> 0]

Rest ==
  /\ extractedFrames = <<>>
  /\ actualFrames = <<>>
  /\ capturedFrames = <<>>
  /\ extractionProgress = [num |-> 0, den |-> 1]
  /\ isExtracting = FALSE
  /\ videoAnalysis = [set |-> FALSE]
  /\ isAnalyzing = FALSE
  /\ analysisProgress = [num |-> 0, den |-> 1]
  /\ analysisError = "null"
  /\ alertOpen = FALSE
  /\ hasRVFC \in BOOLEAN
  /\ video = NoVideo
  /\ rvfc = <<>>
  /\ ef = [c \in 1..MaxCalls |-> IdleCall]
  /\ efOrder = <<>>
  /\ eaf = IdleActual
  /\ an = [a \in 1..MaxAnalyses |-> IdleAnalysis]
  /\ started = 0
  /\ reported = [num |-> 0, den |-> 1]

Init ==
  /\ startTime = NoTime
  /\ endTime = NoTime
  /\ frameInterval = DefaultFrameInterval
  /\ Rest

----------------------------------------------------------------------------
(* VideoPlayer and TimeInput *)

(* handleFileChange: the video element appears (or gets a new src) and     *)
(* starts loading; its duration is NaN, modelled as 0, until the metadata  *)
(* has loaded.  Listeners and frame callbacks stay on the element, and a   *)
(* position assigned before the metadata is there is sought once it is.    *)
handleFileChange(id) ==
  /\ ~alertOpen
  /\ video' = [NoVideo EXCEPT !.exists = TRUE, !.file = id,
                              !.seeking = video.seeking,
                              !.currentTime = video.currentTime]
  /\ started < MaxStarted
  /\ started' = started + 1
  /\ UNCHANGED <<uiTimesEnv, uiFrames, uiExtract, uiAnalysis, alertOpen, rvfc,
                 ef, efOrder, eaf, an>>

(* The browser has read the metadata of the chosen file *)
LoadedMetadata ==
  /\ ~alertOpen
  /\ video.exists /\ video.duration = 0
  /\ video' = [video EXCEPT !.duration = File(video.file).duration,
                            !.period = File(video.file).period,
                            !.nframes = File(video.file).nframes,
                            !.height = File(video.file).height]
  /\ UNCHANGED <<uiTimesEnvStarted, uiFrames, uiExtract, uiAnalysis, alertOpen, rvfc,
                 ef, efOrder, eaf, an>>

(* parseInt(e.target.value) || 0, for typed text that parses to n or to NaN *)
ParseIntOrZero(typed) == IF typed.nan THEN 0 ELSE typed.n

(* The clamp without its upper limit *)
ClampAtZeroOnly(field, newValue) == Max(0, newValue)

(* TimeInput.handleChange(field): hours are only kept non-negative,        *)
(* minutes and seconds are clamped to 0..59                                *)
ClampField(field, newValue) ==
  IF field = "hours" THEN Max(0, newValue) ELSE Min(Max(0, newValue), 59)

TimeInputChange(value, field, typed) ==
  [value EXCEPT ![field] = ClampField(field, ParseIntOrZero(typed))]

SetStartTime(field, typed) ==
  /\ ~alertOpen
  /\ startTime' = TimeInputChange(startTime, field, typed)
  /\ UNCHANGED <<endTime, frameInterval, hasRVFC, started, reported, uiFrames, uiExtract, uiAnalysis,
                 alertOpen, video, rvfc, ef, efOrder, eaf, an>>

SetEndTime(field, typed) ==
  /\ ~alertOpen
  /\ endTime' = TimeInputChange(endTime, field, typed)
  /\ UNCHANGED <<startTime, frameInterval, hasRVFC, started, reported, uiFrames, uiExtract, uiAnalysis,
                 alertOpen, video, rvfc, ef, efOrder, eaf, an>>

SetFrameInterval(value) ==
  /\ ~alertOpen
  /\ value \in SliderValues
  /\ frameInterval' = value
  /\ UNCHANGED <<startTime, endTime, hasRVFC, started, reported, uiFrames, uiExtract, uiAnalysis,
                 alertOpen, video, rvfc, ef, efOrder, eaf, an>>

(* alert() blocks the page until the user dismisses it *)
DismissAlert ==
  /\ alertOpen
  /\ alertOpen' = FALSE
  /\ UNCHANGED <<uiTimesEnvStarted, uiFrames, uiExtract, uiAnalysis, video, rvfc,
                 ef, efOrder, eaf, an>>

(* The range test with < for <= *)
RangeInvalidStrict(startTimeInSeconds, endTimeInSeconds) ==
  endTimeInSeconds < startTimeInSeconds

(* endTimeInSeconds <= startTimeInSeconds *)
RangeInvalid(startTimeInSeconds, endTimeInSeconds) ==
  endTimeInSeconds <= startTimeInSeconds

----------------------------------------------------------------------------
(* extractFrames *)

(* The frame count without the cap *)
TotalFramesUncapped(start, end, interval, maxFrames) ==
  ((end - start) * 1000) \div interval

(* Math.min(Math.floor(duration * 1000 / frameInterval), maxFrames) *)
TotalFrames(start, end, interval, maxFrames) ==
  Min(((end - start) * 1000) \div interval, maxFrames)

(* The test that ends the seek loop: currentFrame >= totalFrames *)
SeekLoopDone(currentFrame, totalFrames) == currentFrame >= totalFrames

(* A frame put in front of the others *)
UnshiftFrame(frames, frame) == <<frame>> \o frames

(* frames.push(frame), and [...prev, frameInfo] *)
PushFrame(frames, frame) == Append(frames, frame)

(* startTime + (currentFrame * frameInterval / 1000), in milliseconds *)
FrameTimestamp(start, currentFrame, interval) ==
  start * 1000 + currentFrame * interval

FreeCalls == {c \in 1..MaxCalls : ef[c].status # "running"}

(* The synchronous part of extractFrames: the first seek and the listener *)
StartExtractFrames(c, start, end, interval, maxFrames) ==
  /\ ef' = [ef EXCEPT ![c] =
              [status |-> "running", startTime |-> start, endTime |-> end,
               frameInterval |-> interval, maxFrames |-> maxFrames,
               totalFrames |-> TotalFrames(start, end, interval, maxFrames),
               currentFrame |-> 0, frames |-> <<>>]]
  /\ video' = SetCurrentTime(video, start * 1000)
  /\ efOrder' = Append(efOrder, c)

handleExtractFrames ==
  /\ ~alertOpen
  /\ video.exists
  /\ IF RangeInvalid(timeToSeconds(startTime), timeToSeconds(endTime))
       THEN /\ alertOpen' = TRUE
            /\ UNCHANGED <<uiTimesEnvStarted, uiFrames, uiExtract, uiAnalysis, video,
                           rvfc, ef, efOrder, eaf, an>>
       ELSE /\ FreeCalls # {}
            /\ started < MaxStarted
            /\ started' = started + 1
            /\ StartExtractFrames(CHOOSE c \in FreeCalls : \A d \in FreeCalls : c <= d,
                                  timeToSeconds(startTime), timeToSeconds(endTime),
                                  frameInterval, MaxFrames)
            /\ UNCHANGED <<uiTimesEnv, uiFrames, uiExtract, uiAnalysis, alertOpen,
                           rvfc, eaf, an>>

Remove(seq, x) == SelectSeq(seq, LAMBDA y : y # x)

(* One run of the onSeeked listener of call c, on the state st that the    *)
(* listeners before it left; readyState is the video's at this event.      *)
onSeeked(st, c, readyState) ==
  LET call == st.ef[c] IN
  IF SeekLoopDone(call.currentFrame, call.totalFrames)
    THEN [st EXCEPT !.ef[c] = IdleCall,
                    !.efOrder = Remove(@, c),
                    !.extractedFrames = call.frames]
  ELSE IF readyState >= HAVE_CURRENT_DATA
    THEN [st EXCEPT
            !.ef[c].frames = PushFrame(@,
                [dataUrl |-> st.video.shown,
                 timestamp |-> FrameTimestamp(call.startTime, call.currentFrame,
                                              call.frameInterval),
                 frameNumber |-> call.currentFrame + 1]),
            !.ef[c].currentFrame = @ + 1,
            !.video = SetCurrentTime(@,
                FrameTimestamp(call.startTime, call.currentFrame + 1,
                               call.frameInterval))]
  ELSE st

RECURSIVE RunSeekedListeners(_, _, _)
RunSeekedListeners(st, listeners, readyState) ==
  IF listeners = <<>> THEN st
  ELSE RunSeekedListeners(onSeeked(st, Head(listeners), readyState),
                          Tail(listeners), readyState)

ReadyStates == 0..4

(* The pending seek completes: the picture at its target is displayed and  *)
(* the seeked event runs every registered listener in registration order;  *)
(* the handlers awaiting a resolved call then store its frames.            *)
Seeked(readyState) ==
  /\ ~alertOpen
  /\ video.seeking
  /\ video.duration > 0
  /\ LET target == SeekTarget(video, video.currentTime)
         st0 == [video |-> [video EXCEPT !.seeking = FALSE, !.shown = target,
                                         !.currentTime = target,
                                         !.next = FrameIndexAt(video, target)],
                 ef |-> ef, efOrder |-> efOrder,
                 extractedFrames |-> extractedFrames]
         st == RunSeekedListeners(st0, efOrder, readyState)
     IN /\ video' = st.video
        /\ ef' = st.ef
        /\ efOrder' = st.efOrder
        /\ extractedFrames' = st.extractedFrames
  /\ UNCHANGED <<uiTimesEnvStarted, actualFrames, capturedFrames, uiExtract, uiAnalysis,
                 alertOpen, rvfc, eaf, an>>

----------------------------------------------------------------------------
(* extractActualFrames *)

(* The percentage without the cap at 100 *)
Uncapped(num, den) == [num |-> num, den |-> den]

(* A percentage num/den, kept exact; Math.min(num/den, 100) for den > 0 *)
MinWith100(num, den) ==
  IF num > 100 * den THEN [num |-> 100, den |-> 1] ELSE [num |-> num, den |-> den]

(* ((mediaTime - startTime) / (endTime - startTime)) * 100, capped at 100 *)
ExtractProgress(mediaTime, start, end) ==
  MinWith100((mediaTime - start * 1000) * 100, (end - start) * 1000)

EafCallback == [kind |-> "processFrame", id |-> 0]
AnCallback(a) == [kind |-> "countFrame", id |-> a]

(* mediaTime < startTime *)
BeforeStart(mediaTime, start) == mediaTime < start * 1000

(* The stop test without its endTime half *)
FullOnly(mediaTime, end, frameCount, maxFrames) == frameCount >= maxFrames

(* mediaTime > endTime || frameCount >= maxFrames *)
PastEndOrFull(mediaTime, end, frameCount, maxFrames) ==
  mediaTime > end * 1000 \/ frameCount >= maxFrames

(* mediaTime <= endTime && frameCount < maxFrames *)
WantsMoreFrames(mediaTime, end, frameCount, maxFrames) ==
  mediaTime <= end * 1000 /\ frameCount < maxFrames

(* resolve(frames) of extractActualFrames, with the rest of                *)
(* handleExtractActualFrames that awaits it                                *)
ResolveActual(st, frames) ==
  [st EXCEPT !.eaf = IdleActual,
             !.video = Pause(@),
             !.actualFrames = frames,
             !.isExtracting = FALSE]

processFrame(st, mediaTime) ==
  LET call == st.eaf IN
  IF BeforeStart(mediaTime, call.startTime)
    THEN [st EXCEPT !.rvfc = Append(@, EafCallback)]
  ELSE IF PastEndOrFull(mediaTime, call.endTime, call.frameCount, call.maxFrames)
    THEN ResolveActual(st, call.frames)
  ELSE
    LET frames == PushFrame(call.frames,
                         [dataUrl |-> st.video.shown, timestamp |-> mediaTime])
        frameCount == call.frameCount + 1
        st1 == [st EXCEPT !.eaf.frames = frames,
                          !.eaf.frameCount = frameCount,
                          !.extractionProgress =
                             ExtractProgress(mediaTime, call.startTime, call.endTime),
                          !.reported =
                             ExtractProgress(mediaTime, call.startTime, call.endTime)]
    IN IF WantsMoreFrames(mediaTime, call.endTime, frameCount, call.maxFrames)
         THEN [st1 EXCEPT !.rvfc = Append(@, EafCallback)]
         ELSE ResolveActual(st1, frames)

handleExtractActualFrames ==
  /\ ~alertOpen
  /\ video.exists
  /\ ~isExtracting
  /\ IF RangeInvalid(timeToSeconds(startTime), timeToSeconds(endTime))
       THEN /\ alertOpen' = TRUE
            /\ UNCHANGED <<uiTimesEnvStarted, uiFrames, uiExtract, uiAnalysis, video,
                           rvfc, ef, efOrder, eaf, an>>
       ELSE /\ started < MaxStarted
            /\ started' = started + 1
            /\ extractionProgress' = [num |-> 0, den |-> 1]
            /\ IF hasRVFC
                 THEN /\ eaf' = [status |-> "running",
                                 startTime |-> timeToSeconds(startTime),
                                 endTime |-> timeToSeconds(endTime),
                                 maxFrames |-> MaxFrames,
                                 frameCount |-> 0, frames |-> <<>>]
                      /\ video' = Play(SetCurrentTime(video,
                                                      timeToSeconds(startTime) * 1000))
                      /\ rvfc' = Append(rvfc, EafCallback)
                      /\ isExtracting' = TRUE
                      /\ UNCHANGED actualFrames
                 ELSE /\ actualFrames' = <<>>
                      /\ isExtracting' = FALSE
                      /\ UNCHANGED <<video, rvfc, eaf>>
            /\ UNCHANGED <<uiTimesEnv, extractedFrames, capturedFrames, uiAnalysis,
                           alertOpen, ef, efOrder, an>>

----------------------------------------------------------------------------
(* analyzeVideoFrames *)

NoVideoElementError == "No video element found"
InvalidDurationError == "No video loaded or video duration is invalid"
PlayError == "The play() request was interrupted"

NoAnalysis == [set |-> FALSE]

(* Math.min((mediaTime / video.duration) * 100, 100) *)
AnalyzeProgress(mediaTime, duration) == MinWith100(mediaTime * 100, duration)

(* The duration test left out *)
DurationNeverInvalid(v) == FALSE

(* !video.duration: true of NaN (no metadata yet) and of 0 *)
DurationInvalid(v) == v.duration = 0

(* !startTime: true of null and of 0 *)
StartTimeUnset(call) == ~call.hasStart \/ call.startTime = 0

(* The result stored by a call whose promise was rejected before *)
SettleEvenIfRejected(st, a, result) ==
  [st EXCEPT !.an[a] = IdleAnalysis,
             !.videoAnalysis = result,
             !.isAnalyzing = FALSE,
             !.analysisProgress = [num |-> 0, den |-> 1]]

(* The handler that awaits the call: setVideoAnalysis, then the finally    *)
SettleResolved(st, a, result) ==
  IF st.an[a].status = "pending"
    THEN [st EXCEPT !.an[a] = IdleAnalysis,
                    !.videoAnalysis = result,
                    !.isAnalyzing = FALSE,
                    !.analysisProgress = [num |-> 0, den |-> 1]]
    ELSE [st EXCEPT !.an[a] = IdleAnalysis]

countFrame(st, a, mediaTime) ==
  LET call == st.an[a]
      start == IF StartTimeUnset(call) THEN mediaTime ELSE call.startTime
      frameCount == call.frameCount + 1
      st1 == [st EXCEPT !.an[a].hasStart = TRUE,
                        !.an[a].startTime = start,
                        !.an[a].lastTime = mediaTime,
                        !.an[a].frameCount = frameCount,
                        !.an[a].firstTime =
                           IF call.frameCount = 0 THEN mediaTime ELSE @,
                        !.analysisProgress =
                           AnalyzeProgress(mediaTime, st.video.duration),
                        !.reported =
                           AnalyzeProgress(mediaTime, st.video.duration)]
  IN IF mediaTime < st.video.duration
       THEN [st1 EXCEPT !.rvfc = Append(@, AnCallback(a))]
       ELSE SettleResolved(
              [st1 EXCEPT !.video = SetCurrentTime(Pause(@), 0)], a,
              [set |-> TRUE, totalFrames |-> frameCount,
               duration |-> mediaTime - start,
               fps |-> [num |-> frameCount * 1000, den |-> mediaTime - start]])

FreeAnalyses ==
  {a \in 1..MaxAnalyses :
     /\ an[a].status # "pending"
     /\ \A i \in 1..Len(rvfc) : rvfc[i] # AnCallback(a)}

(* Math.round(duration * fps) for fps = 30.  The duration is the double    *)
(* nearest to duration / 1000 seconds and the product is rounded to a      *)
(* double again before Math.round.  The product differs from the exact     *)
(* duration * 30 / 1000 by far less than 1/100, so the result is the exact *)
(* value rounded half up, unless the exact value lies at a half (duration  *)
(* = 50 mod 100): there the product is the half itself or the double next  *)
(* to it on either side, and Math.round gives one less when it is below.   *)

(* 2^n *)
RECURSIVE Pow2(_)
Pow2(n) == IF n = 0 THEN 1 ELSE 2 * Pow2(n - 1)

(* The largest e with scale * 2^e <= ms, for ms >= scale *)
RECURSIVE ExponentAbove(_, _)
ExponentAbove(ms, scale) ==
  IF 2 * scale <= ms THEN 1 + ExponentAbove(ms, 2 * scale) ELSE 0

(* The least e with ms * 2^e >= 1000 *)
RECURSIVE ExponentBelow(_)
ExponentBelow(ms) == IF ms >= 1000 THEN 0 ELSE 1 + ExponentBelow(2 * ms)

(* The binary exponent E of the double ms / 1000: 2^E <= ms / 1000 < 2^(E+1) *)
BinaryExponent(ms) ==
  IF ms >= 1000 THEN ExponentAbove(ms, 1000) ELSE 0 - ExponentBelow(ms)

(* 2^n modulo 5 *)
Pow2Mod5(n) == CASE n % 4 = 0 -> 1 [] n % 4 = 1 -> 2 [] n % 4 = 2 -> 4 [] n % 4 = 3 -> 3

(* The double product (ms / 1000) * 30 lies below the half that the exact  *)
(* product is: ms / 1000 = (ms / 50) / 20 is then rounded down by 2/5 of   *)
(* its last place, which the factor 30 turns into 3/4 of the last place of *)
(* the product when ms / 1000 is below 16/15 * 2^E, and into less than     *)
(* half of it, which rounding takes back, otherwise.                       *)
ProductBelowHalf(ms) ==
  LET e == BinaryExponent(ms) IN
  /\ ms % 100 = 50
  /\ IF e >= 0 THEN 15 * ms < 16000 * Pow2(e)
               ELSE 15 * ms * Pow2(0 - e) < 16000
  /\ ((ms \div 50) * Pow2Mod5(50 - e)) % 5 = 2

EstimatedFrames(duration) ==
  LET halfUp == (duration * 30 + 500) \div 1000
  IN IF ProductBelowHalf(duration) THEN halfUp - 1 ELSE halfUp

handleAnalyzeVideo ==
  /\ ~alertOpen
  /\ ~isAnalyzing
  /\ IF ~video.exists
       THEN /\ analysisError' = NoVideoElementError
            /\ UNCHANGED <<videoAnalysis, isAnalyzing, analysisProgress, video,
                           rvfc, an, started>>
       ELSE IF DurationInvalid(video)
       THEN /\ analysisError' = InvalidDurationError
            /\ videoAnalysis' = NoAnalysis
            /\ isAnalyzing' = FALSE
            /\ analysisProgress' = [num |-> 0, den |-> 1]
            /\ UNCHANGED <<video, rvfc, an, started>>
       ELSE IF hasRVFC
       THEN /\ FreeAnalyses # {}
            /\ started < MaxStarted
            /\ started' = started + 1
            /\ LET a == CHOOSE x \in FreeAnalyses : \A y \in FreeAnalyses : x <= y
               IN an' = [an EXCEPT ![a] = [status |-> "pending", frameCount |-> 0,
                                           hasStart |-> FALSE, startTime |-> 0,
                                           lastTime |-> 0, playPending |-> TRUE,
                                           firstTime |-> 0]]
                  /\ rvfc' = Append(rvfc, AnCallback(a))
            /\ video' = Play(SetCurrentTime(video, 0))
            /\ analysisError' = "null"
            /\ videoAnalysis' = NoAnalysis
            /\ isAnalyzing' = TRUE
            /\ analysisProgress' = [num |-> 0, den |-> 1]
       ELSE /\ analysisError' = "null"
            /\ videoAnalysis' = [set |-> TRUE,
                                 totalFrames |-> EstimatedFrames(video.duration),
                                 duration |-> video.duration,
                                 fps |-> [num |-> 30, den |-> 1]]
            /\ isAnalyzing' = FALSE
            /\ analysisProgress' = [num |-> 0, den |-> 1]
            /\ UNCHANGED <<video, rvfc, an, started>>
  /\ UNCHANGED <<uiTimesEnv, uiFrames, uiExtract, alertOpen, ef, efOrder, eaf>>

(* The promise of video.play() is rejected before playback has begun:      *)
(* .catch(reject) rejects the analysis, whose frame callback stays         *)
(* registered.                                                             *)
PlayRejected(a) ==
  /\ ~alertOpen
  /\ an[a].playPending
  /\ an' = [an EXCEPT ![a].playPending = FALSE,
                      ![a].status = IF @ = "pending" THEN "rejected" ELSE @]
  /\ video' = Pause(video)
  /\ IF an[a].status = "pending"
       THEN /\ analysisError' = PlayError
            /\ isAnalyzing' = FALSE
            /\ analysisProgress' = [num |-> 0, den |-> 1]
            /\ UNCHANGED videoAnalysis
       ELSE UNCHANGED uiAnalysis
  /\ UNCHANGED <<uiTimesEnvStarted, uiFrames, uiExtract, alertOpen, rvfc, ef, efOrder, eaf>>

----------------------------------------------------------------------------
(* Frame presentation *)

RunCallback(st, cb, mediaTime) ==
  IF cb.kind = "processFrame" THEN processFrame(st, mediaTime)
  ELSE countFrame(st, cb.id, mediaTime)

RECURSIVE RunFrameCallbacks(_, _, _)
RunFrameCallbacks(st, callbacks, mediaTime) ==
  IF callbacks = <<>> THEN st
  ELSE RunFrameCallbacks(RunCallback(st, Head(callbacks), mediaTime),
                         Tail(callbacks), mediaTime)

(* The playing video presents its next frame: every frame callback         *)
(* requested since the last frame runs once, in the order of the requests. *)
FramePresented ==
  /\ ~alertOpen
  /\ ~video.paused
  /\ ~video.seeking
  /\ video.next < video.nframes
  /\ LET mediaTime == video.next * video.period
         st0 == [video |-> [video EXCEPT !.shown = mediaTime,
                                         !.currentTime = mediaTime,
                                         !.next = @ + 1],
                 rvfc |-> <<>>,
                 eaf |-> eaf,
                 an |-> [a \in 1..MaxAnalyses |->
                           [an[a] EXCEPT !.playPending = FALSE]],
                 actualFrames |-> actualFrames,
                 isExtracting |-> isExtracting,
                 extractionProgress |-> extractionProgress,
                 videoAnalysis |-> videoAnalysis,
                 isAnalyzing |-> isAnalyzing,
                 analysisProgress |-> analysisProgress,
                 reported |-> reported]
         st == RunFrameCallbacks(st0, rvfc, mediaTime)
     IN /\ video' = st.video
        /\ rvfc' = st.rvfc
        /\ eaf' = st.eaf
        /\ an' = st.an
        /\ actualFrames' = st.actualFrames
        /\ isExtracting' = st.isExtracting
        /\ extractionProgress' = st.extractionProgress
        /\ videoAnalysis' = st.videoAnalysis
        /\ isAnalyzing' = st.isAnalyzing
        /\ analysisProgress' = st.analysisProgress
        /\ reported' = st.reported
  /\ UNCHANGED <<startTime, endTime, frameInterval, hasRVFC, started,
                 extractedFrames, capturedFrames, analysisError,
                 alertOpen, ef, efOrder>>

----------------------------------------------------------------------------
(* The player's own controls (<video controls>) *)

(* The user presses play *)
UserPlay ==
  /\ ~alertOpen
  /\ video.exists /\ video.duration > 0
  /\ video.paused
  /\ started < MaxStarted
  /\ started' = started + 1
  /\ video' = Play(video)
  /\ UNCHANGED <<uiTimesEnv, uiFrames, uiExtract, uiAnalysis, alertOpen, rvfc,
                 ef, efOrder, eaf, an>>

(* The user presses pause while the video plays.  A pause that comes while *)
(* the promise of a play() is still pending rejects it: that step is       *)
(* PlayRejected.                                                           *)
UserPause ==
  /\ ~alertOpen
  /\ video.exists /\ video.duration > 0
  /\ ~video.paused
  /\ \A a \in 1..MaxAnalyses : ~an[a].playPending
  /\ video' = Pause(video)
  /\ UNCHANGED <<uiTimesEnvStarted, uiFrames, uiExtract, uiAnalysis, alertOpen,
                 rvfc, ef, efOrder, eaf, an>>

(* The user drags the position to t *)
UserSeek(t) ==
  /\ ~alertOpen
  /\ video.exists /\ video.duration > 0
  /\ started < MaxStarted
  /\ started' = started + 1
  /\ video' = SetCurrentTime(video, t)
  /\ UNCHANGED <<uiTimesEnv, uiFrames, uiExtract, uiAnalysis, alertOpen, rvfc,
                 ef, efOrder, eaf, an>>

----------------------------------------------------------------------------
(* Captured frames and the Clear buttons *)

(* 2^n modulo 125 *)
RECURSIVE Pow2Mod125(_)
Pow2Mod125(n) == IF n = 0 THEN 1 ELSE (2 * Pow2Mod125(n - 1)) % 125

(* The double nearest to ms / 1000 lies below it, by r / 125 of its last   *)
(* place, for the r this gives when r is not 0 and below one half of 125;  *)
(* otherwise it is ms / 1000 or lies above it.                             *)
RoundedDownBy(ms) ==
  ((ms % 125) * Pow2Mod125(49 - BinaryExponent(ms))) % 125

(* Math.floor(currentTime * videoHeight) on doubles, for a currentTime of  *)
(* ms / 1000 seconds.  Where the exact product is not whole, the double    *)
(* product has the same floor.  Where it is a whole number n > 0, the      *)
(* double product is n or a double below n, and its floor is n - 1, when   *)
(* the double ms / 1000 lies below ms / 1000 by so much that, times the    *)
(* height, it is more than half the distance from n to the double before   *)
(* n (which is half as far when n is a power of two).                      *)
FloorOfProduct(ms, height) ==
  LET n == (ms * height) \div 1000
      r == RoundedDownBy(ms)
      en == ExponentAbove(n, 1)
      d == en - BinaryExponent(ms)
      reach == (IF n = Pow2(en) THEN 4 ELSE 2) * r * height
  IN IF (ms * height) % 1000 # 0 \/ n = 0 THEN n
     ELSE IF r # 0 /\ 2 * r < 125 /\ reach > 125 * Pow2(d) THEN n - 1
     ELSE n

(* captureFrame and handleFrameCapture; readyState is the video's now *)
captureFrame(readyState) ==
  /\ ~alertOpen
  /\ video.exists
  /\ readyState = HAVE_ENOUGH_DATA
  /\ started < MaxStarted
  /\ started' = started + 1
  /\ capturedFrames' = PushFrame(capturedFrames,
        [dataUrl |-> video.shown, timestamp |-> video.currentTime,
         frameNumber |-> FloorOfProduct(video.currentTime, video.height)])
  /\ UNCHANGED <<uiTimesEnv, extractedFrames, actualFrames, uiExtract, uiAnalysis,
                 alertOpen, video, rvfc, ef, efOrder, eaf, an>>

ClearCapturedFrames ==
  /\ ~alertOpen
  /\ Len(capturedFrames) > 0
  /\ capturedFrames' = <<>>
  /\ UNCHANGED <<uiTimesEnvStarted, extractedFrames, actualFrames, uiExtract, uiAnalysis,
                 alertOpen, video, rvfc, ef, efOrder, eaf, an>>

ClearExtractedFrames ==
  /\ ~alertOpen
  /\ Len(extractedFrames) > 0
  /\ extractedFrames' = <<>>
  /\ UNCHANGED <<uiTimesEnvStarted, actualFrames, capturedFrames, uiExtract, uiAnalysis,
                 alertOpen, video, rvfc, ef, efOrder, eaf, an>>

ClearActualFrames ==
  /\ ~alertOpen
  /\ Len(actualFrames) > 0
  /\ actualFrames' = <<>>
  /\ UNCHANGED <<uiTimesEnvStarted, extractedFrames, capturedFrames, uiExtract, uiAnalysis,
                 alertOpen, video, rvfc, ef, efOrder, eaf, an>>

----------------------------------------------------------------------------
(* Specifications *)

Typed(values) == {[nan |-> TRUE, n |-> 0]} \cup {[nan |-> FALSE, n |-> k] : k \in values}

(* Spec: the page after the user has entered times and an interval; files *)
(* are chosen, buttons are clicked, the seconds of the two times and the   *)
(* interval are edited and the player's controls are used, in any order.   *)
Seconds(n) == [hours |-> 0, minutes |-> 0, seconds |-> n]
SetStartTyped == Typed({1})
SetEndTyped == Typed({1, 2}) \ Typed({})
SetIntervals == {660, 990}
PickedFiles == {"slow", "over"}
SeekPositions == {0, 1500}

InitSet ==
  /\ startTime \in {TimeInputChange(NoTime, "seconds", typed) : typed \in SetStartTyped}
  /\ endTime \in {TimeInputChange(NoTime, "seconds", typed) : typed \in SetEndTyped}
  /\ frameInterval \in SetIntervals
  /\ Rest

PageStep(files, startTyped, endTyped, intervals, positions) ==
  \/ \E id \in files : handleFileChange(id)
  \/ LoadedMetadata
  \/ \E value \in startTyped : SetStartTime("seconds", value)
  \/ \E value \in endTyped : SetEndTime("seconds", value)
  \/ \E value \in intervals : SetFrameInterval(value)
  \/ UserPlay
  \/ UserPause
  \/ \E t \in positions : UserSeek(t)
  \/ DismissAlert
  \/ handleExtractFrames
  \/ \E readyState \in ReadyStates : Seeked(readyState)
  \/ handleExtractActualFrames
  \/ handleAnalyzeVideo
  \/ \E a \in 1..MaxAnalyses : PlayRejected(a)
  \/ FramePresented
  \/ \E readyState \in ReadyStates : captureFrame(readyState)
  \/ ClearCapturedFrames
  \/ ClearExtractedFrames
  \/ ClearActualFrames

Next == PageStep(PickedFiles, SetStartTyped, SetEndTyped, SetIntervals, SeekPositions)

Spec == InitSet /\ [][Next]_vars

(* SpecCap: the extraction buttons and the player's controls of the same  *)
(* page, with a range, an interval and a file that hold more than          *)
(* MaxFrames frames, which stay as entered, and a video that has its       *)
(* current data at every seeked event.                                     *)
CapStart == Seconds(1)
CapEnd == Seconds(5)
CapFiles == {"fast", "long"}
CapSeekPositions == {2000}

InitCap ==
  /\ startTime = CapStart
  /\ endTime = CapEnd
  /\ frameInterval = SliderStep
  /\ Rest

NextCap ==
  \/ \E id \in CapFiles : handleFileChange(id)
  \/ LoadedMetadata
  \/ handleExtractFrames
  \/ \E readyState \in HAVE_CURRENT_DATA..HAVE_ENOUGH_DATA : Seeked(readyState)
  \/ handleExtractActualFrames
  \/ FramePresented
  \/ UserPlay
  \/ UserPause
  \/ \E t \in CapSeekPositions : UserSeek(t)

SpecCap == InitCap /\ [][NextCap]_vars

(* SpecEdit: the time inputs and the slider, from the page as constructed *)
TypedValues == Typed({0 - 1, 1, 2, 60})
PickedIntervals == {660, 990}

NextEdit ==
  \/ \E f \in {"hours", "minutes", "seconds"}, typed \in TypedValues :
        SetStartTime(f, typed)
  \/ \E f \in {"hours", "minutes", "seconds"}, typed \in TypedValues :
        SetEndTime(f, typed)
  \/ \E value \in PickedIntervals : SetFrameInterval(value)

SpecEdit == Init /\ [][NextEdit]_vars

----------------------------------------------------------------------------
(* Properties *)

Calls == 1..MaxCalls
Analyses == 1..MaxAnalyses

IsPushOf(before, after) ==
  /\ Len(after) = Len(before) + 1
  /\ SubSeq(after, 1, Len(before)) = before

(* Call c resolves in this step: its listener is removed and the array it  *)
(* built, ef[c].frames, is what the promise resolves with.                 *)
ResolvesNow(c) == ef[c].status = "running" /\ ef'[c].status = "idle"

(* min(floor((endTime - startTime) * 1000 / frameInterval), maxFrames) *)
ClaimedCount(call) ==
  LET n == ((call.endTime - call.startTime) * 1000) \div call.frameInterval
  IN IF n < call.maxFrames THEN n ELSE call.maxFrames

(* C1: a call of extractFrames whose seeked events all come with current   *)
(* data resolves with exactly min(floor((endTime - startTime) * 1000 /     *)
(* frameInterval), maxFrames) frames, and no array it resolves with, nor   *)
(* the one the page stores, holds more than maxFrames frames.              *)
C1_ExactFrameCount ==
  /\ [](\A c \in Calls : ef[c].status = "running"
                           => Len(ef[c].frames) <= ef[c].maxFrames)
  /\ [](Len(extractedFrames) <= MaxFrames)
  /\ [][\A c \in Calls :
          ResolvesNow(c) => /\ Len(ef[c].frames) = ClaimedCount(ef[c])
                            /\ Len(ef[c].frames) <= ef[c].maxFrames]_vars

(* An extraction has resolved with MaxFrames frames although the range     *)
(* holds more intervals than that.                                         *)
C1_Witness ==
  /\ Len(extractedFrames) = MaxFrames
  /\ ((timeToSeconds(endTime) - timeToSeconds(startTime)) * 1000)
        \div frameInterval > MaxFrames
  /\ \A c \in Calls : ef[c].status = "idle"

(* C2: array order is capture order.  While a call of extractFrames or of  *)
(* extractActualFrames runs, its array only grows by one frame at its end; *)
(* capturedFrames changes only by one frame pushed at its end or by the    *)
(* Clear button emptying it; and the i-th frame of extractFrames has       *)
(* frameNumber i and timestamp startTime + (i - 1) * frameInterval / 1000, *)
(* so the timestamps strictly increase.                                    *)
C2_CaptureOrder ==
  /\ [](\A c \in Calls : ef[c].status = "running" =>
          /\ \A i \in 1..Len(ef[c].frames) :
                /\ ef[c].frames[i].frameNumber = i
                /\ ef[c].frames[i].timestamp =
                      ef[c].startTime * 1000 + (i - 1) * ef[c].frameInterval
          /\ \A i \in 1..(Len(ef[c].frames) - 1) :
                ef[c].frames[i].timestamp < ef[c].frames[i + 1].timestamp)
  /\ [][/\ \A c \in Calls :
             (ef[c].status = "running" /\ ef'[c].status = "running")
                => \/ ef'[c].frames = ef[c].frames
                   \/ IsPushOf(ef[c].frames, ef'[c].frames)
        /\ (eaf.status = "running" /\ eaf'.status = "running")
                => \/ eaf'.frames = eaf.frames
                   \/ IsPushOf(eaf.frames, eaf'.frames)
        /\ \/ capturedFrames' = capturedFrames
           \/ IsPushOf(capturedFrames, capturedFrames')
           \/ capturedFrames' = <<>>]_vars

(* A frame has been captured while an extraction holds several frames *)
C2_Witness ==
  /\ Len(capturedFrames) = 1
  /\ \E c \in Calls : ef[c].status = "running" /\ Len(ef[c].frames) >= 2

(* C3: every frame extractActualFrames records has                         *)
(* startTime <= mediaTime <= endTime, it counts exactly the frames it      *)
(* records, and neither the array it is building nor the one it resolves   *)
(* with holds more than maxFrames frames; every frame extractFrames        *)
(* records has startTime <= timestamp < endTime.                           *)
C3_TimeBoundsAndCap ==
  /\ [](eaf.status = "running" =>
          /\ \A i \in 1..Len(eaf.frames) :
                /\ eaf.startTime * 1000 <= eaf.frames[i].timestamp
                /\ eaf.frames[i].timestamp <= eaf.endTime * 1000
          /\ eaf.frameCount = Len(eaf.frames)
          /\ Len(eaf.frames) <= eaf.maxFrames)
  /\ [](Len(actualFrames) <= MaxFrames)
  /\ [](\A c \in Calls : ef[c].status = "running" =>
          \A i \in 1..Len(ef[c].frames) :
             /\ ef[c].startTime * 1000 <= ef[c].frames[i].timestamp
             /\ ef[c].frames[i].timestamp < ef[c].endTime * 1000)
  /\ [][(eaf.status = "running" /\ eaf'.status = "idle") =>
          /\ Len(actualFrames') <= eaf.maxFrames
          /\ \A i \in 1..Len(actualFrames') :
                /\ eaf.startTime * 1000 <= actualFrames'[i].timestamp
                /\ actualFrames'[i].timestamp <= eaf.endTime * 1000]_vars

(* extractActualFrames has resolved at the cap, after skipping the frames  *)
(* before startTime, on a video that had more frames in the range          *)
C3_Witness ==
  /\ Len(actualFrames) = MaxFrames
  /\ eaf.status = "idle"
  /\ video.next < video.nframes
  /\ timeToSeconds(startTime) > 0

(* C4: every call of extractFrames eventually resolves, whatever the       *)
(* readyState at its seeked events: as only a seeked event moves a call    *)
(* on, a call that has not resolved always has a seek pending.             *)
C4_UnresolvedCallAwaitsSeeked ==
  \A c \in Calls : ef[c].status = "running" => video.seeking

(* The playback of the loaded video has come to rest at its end *)
PlayedToEnd ==
  /\ video.nframes > 0
  /\ ~video.paused
  /\ ~video.seeking
  /\ video.next >= video.nframes

(* C5: every call of extractActualFrames eventually resolves with the      *)
(* video paused, also for an endTime past the last frame, and isExtracting *)
(* returns to false: as only a frame callback moves the call on, the call  *)
(* has resolved by the time the video has presented its last frame.        *)
C5_ResolvedWhenPlayedToEnd ==
  PlayedToEnd => (eaf.status # "running" /\ ~isExtracting)

(* analyzeVideoFrames resolves in this step, for analysis a *)
AnalysisResolvesNow(a) ==
  /\ an[a].status = "pending"
  /\ an'[a].status = "idle"
  /\ videoAnalysis'.set

(* C6: when analyzeVideoFrames resolves, totalFrames is the number of      *)
(* frame callbacks delivered, duration is the mediaTime of the last        *)
(* counted frame minus that of the first, fps is totalFrames / duration,   *)
(* and the video is paused with currentTime reset to 0.                    *)
C6_AnalysisResult ==
  [][\A a \in Analyses : AnalysisResolvesNow(a) =>
        LET last == video.next * video.period
            first == IF an[a].frameCount = 0 THEN last ELSE an[a].firstTime
        IN /\ videoAnalysis'.totalFrames = an[a].frameCount + 1
           /\ videoAnalysis'.duration = last - first
           /\ videoAnalysis'.fps = [num |-> videoAnalysis'.totalFrames * 1000,
                                    den |-> videoAnalysis'.duration]
           /\ video'.paused
           /\ video'.currentTime = 0]_vars

(* Every frame of the loaded video has a media time in [0, duration) *)
FramesWithinDuration ==
  video.nframes > 0 /\ (video.nframes - 1) * video.period < video.duration

(* C7: every run of handleAnalyzeVideo settles once playback has presented *)
(* every frame of a video whose frame media times lie in                   *)
(* [0, video.duration): by then isAnalyzing is false and analysisProgress  *)
(* is 0.                                                                   *)
C7_SettledWhenPlayedToEnd ==
  (PlayedToEnd /\ FramesWithinDuration)
     => (~isAnalyzing /\ analysisProgress.num = 0)

(* C8: with video.duration missing or zero, analyzeVideoFrames rejects     *)
(* with 'No video loaded or video duration is invalid' and neither plays,  *)
(* seeks nor requests a frame callback; and whenever the page shows the    *)
(* message of a rejection, no result is stored and isAnalyzing is false.   *)
C8_RejectedAnalysis ==
  /\ [](analysisError \in {InvalidDurationError, PlayError}
          => (videoAnalysis = NoAnalysis /\ ~isAnalyzing))
  /\ [][(handleAnalyzeVideo /\ video.exists /\ video.duration = 0)
          => /\ analysisError' = InvalidDurationError
             /\ videoAnalysis' = NoAnalysis
             /\ ~isAnalyzing'
             /\ UNCHANGED <<video, rvfc, an>>]_vars

(* Analyze was clicked before the metadata of the chosen file had loaded *)
C8_Witness ==
  /\ analysisError = InvalidDurationError
  /\ video.exists /\ video.duration = 0
  /\ video.paused /\ ~video.seeking /\ rvfc = <<>>

(* C9: with an end time not after the start time, the two extraction       *)
(* handlers raise the alert and change nothing else; the extraction        *)
(* routines only ever run with endTime > startTime.                        *)
C9_InvalidRangeRejected ==
  /\ [](/\ \A c \in Calls : ef[c].status = "running" => ef[c].endTime > ef[c].startTime
        /\ eaf.status = "running" => eaf.endTime > eaf.startTime)
  /\ [][/\ (alertOpen' /\ ~alertOpen) =>
              /\ timeToSeconds(endTime) <= timeToSeconds(startTime)
              /\ UNCHANGED <<extractedFrames, actualFrames, capturedFrames,
                             isExtracting, extractionProgress, video, rvfc,
                             ef, efOrder, eaf>>
        /\ ((handleExtractFrames \/ handleExtractActualFrames)
              /\ timeToSeconds(endTime) <= timeToSeconds(startTime))
              => (alertOpen' /\ ~alertOpen)]_vars

(* The alert is up on a page that has a video *)
C9_Witness ==
  /\ alertOpen
  /\ video.exists
  /\ timeToSeconds(endTime) <= timeToSeconds(startTime)

InPercentRange(p) == p.den > 0 /\ 0 <= p.num /\ p.num <= 100 * p.den

(* C10: every value passed to onProgress by extractActualFrames and by     *)
(* analyzeVideoFrames, and so every value of extractionProgress and        *)
(* analysisProgress, lies in [0, 100].                                     *)
C10_ProgressInRange ==
  /\ InPercentRange(reported)
  /\ InPercentRange(extractionProgress)
  /\ InPercentRange(analysisProgress)

(* A frame past video.duration was counted and 100 was reported for it *)
C10_Witness ==
  /\ reported = [num |-> 100, den |-> 1]
  /\ video.shown > video.duration
  /\ video.duration > 0

(* The first step of handleExtractActualFrames past its range test, in a   *)
(* browser without requestVideoFrameCallback                               *)
StartsWithoutRVFC ==
  /\ handleExtractActualFrames
  /\ ~hasRVFC
  /\ ~RangeInvalid(timeToSeconds(startTime), timeToSeconds(endTime))

(* C11: without requestVideoFrameCallback, extractActualFrames falls back  *)
(* to time-based extraction: the call either is still at work after its    *)
(* first step or has handed the page as many frames as extractFrames       *)
(* counts for the same range (at a frame interval the page can pass or     *)
(* the default one), never an empty array.                                 *)
C11_FallsBackToTimeBased ==
  [][StartsWithoutRVFC =>
       \/ isExtracting'
       \/ \E interval \in SliderValues \cup {DefaultFrameInterval} :
            /\ TotalFrames(timeToSeconds(startTime), timeToSeconds(endTime),
                           interval, MaxFrames) > 0
            /\ Len(actualFrames') =
                 TotalFrames(timeToSeconds(startTime), timeToSeconds(endTime),
                             interval, MaxFrames)]_vars

(* A time value TimeInput can hold *)
InTimeInputRange(time) ==
  /\ time.hours >= 0
  /\ time.minutes \in 0..59
  /\ time.seconds \in 0..59

(* The order of time values: by hours, then minutes, then seconds *)
TimeBefore(s, t) ==
  \/ s.hours < t.hours
  \/ s.hours = t.hours /\ s.minutes < t.minutes
  \/ s.hours = t.hours /\ s.minutes = t.minutes /\ s.seconds < t.seconds

(* The time value a count of seconds stands for *)
SecondsToTime(n) ==
  [hours |-> n \div 3600, minutes |-> (n % 3600) \div 60, seconds |-> n % 60]

(* C12: after any sequence of edits the two time values hold hours >= 0    *)
(* and minutes and seconds in 0..59; timeToSeconds of such a value is the  *)
(* count of seconds the value stands for, so that the value is recovered   *)
(* from it, distinct values give distinct counts, and the counts are in    *)
(* the order of the values.                                                *)
C12_TimeToSecondsOrder ==
  /\ InTimeInputRange(startTime)
  /\ InTimeInputRange(endTime)
  /\ SecondsToTime(timeToSeconds(startTime)) = startTime
  /\ SecondsToTime(timeToSeconds(endTime)) = endTime
  /\ (startTime # endTime) =>
        timeToSeconds(startTime) # timeToSeconds(endTime)
  /\ TimeBefore(startTime, endTime) <=>
        timeToSeconds(startTime) < timeToSeconds(endTime)

(* Edits have led to 0:00:59 and 0:01:00, one second apart *)
C12_Witness ==
  /\ startTime = [hours |-> 0, minutes |-> 0, seconds |-> 59]
  /\ endTime = [hours |-> 0, minutes |-> 1, seconds |-> 0]
  /\ timeToSeconds(endTime) = timeToSeconds(startTime) + 1

(* The calls of the three routines that have not settled *)
InProgress ==
  Cardinality({c \in Calls : ef[c].status = "running"})
  + (IF eaf.status = "running" THEN 1 ELSE 0)
  + Cardinality({a \in Analyses : an[a].status = "pending"})

(* C13: at any moment at most one call of extractFrames,                   *)
(* extractActualFrames and analyzeVideoFrames is in progress on the page's *)
(* video: no click starts one while an earlier call has not settled.       *)
C13_AtMostOneInProgress == InProgress <= 1

(* Call c records a frame in this step *)
PushesNow(c) ==
  /\ ef[c].status = "running"
  /\ ef'[c].status = "running"
  /\ Len(ef'[c].frames) = Len(ef[c].frames) + 1

(* C14: every frame extractFrames records is drawn with the video at the   *)
(* frame's timestamp (at the video's end for a timestamp past it): the     *)
(* picture stored with a frame pushed in a step is the one at the position *)
(* the call asked for, whatever other seeks happen in between.             *)
C14_FrameDrawnAtItsTimestamp ==
  [][\A c \in Calls :
       PushesNow(c) =>
         LET frame == ef'[c].frames[Len(ef'[c].frames)]
         IN frame.dataUrl = SeekTarget(video, frame.timestamp)]_vars

(* C15: the page never holds an analysis result and an analysis error at   *)
(* the same time.                                                          *)
C15_ResultOrErrorNotBoth == ~(videoAnalysis.set /\ analysisError # "null")

(* An analysis was rejected by play(), the error is shown, and its frame   *)
(* callback has since counted to the last frame and resolved to no effect. *)
C15_Witness ==
  /\ analysisError = PlayError
  /\ ~videoAnalysis.set
  /\ \A a \in Analyses : an[a].status = "idle"

====
